---- MODULE Spec2Model ----
(***************************************************************************)
(* A model of group_survey_parser.py: the pipeline of __main__, which runs *)
(* process_self_evals and then process_peer_evals over a prepared Canvas   *)
(* gradebook and the responses of a group-evaluation survey.               *)
(*                                                                         *)
(* A Python string is a sequence of one-character strings, so that         *)
(* split_email and fix_name are computed character by character.  A table  *)
(* cell is a tagged record: Txt(s) a string, Num(h) the number h/Scale,    *)
(* NaN a blank (missing) cell, None a column that does not exist yet.      *)
(***************************************************************************)
EXTENDS Integers, Sequences, FiniteSets, TLC

VARIABLES
    grade_book,            \* the gradebook: one record per student
    survey_results,        \* the survey responses, one record per submission
    evals_self,            \* process_self_evals: the self-evaluation table
    evals_peer,            \* process_peer_evals: all peer rows, stacked
    evals_peer_compiled,   \* process_peer_evals: the bucket of each Name
    pc,                    \* where the pipeline is
    idx,                   \* the cursor of the loop that is running
    name,                  \* the local variable name of the peer loop
    tries,                 \* find_student: prompts answered with a wrong name
    err                    \* the exception that ended the run, if any

vars == <<grade_book, survey_results, evals_self, evals_peer,
          evals_peer_compiled, pc, idx, name, tries, err>>

----------------------------------------------------------------------------
(* Bounds of the model *)

\* the largest number of survey responses
MaxResponses == 2
\* the largest number of wrong names the operator enters at one prompt
MaxPrompts == 2

\* numbers are kept in hundredths: round(x, 2) of lines 471 and 475
Scale == 100

----------------------------------------------------------------------------
(* Cells *)

Txt(s) == [t |-> "str", s |-> s, n |-> 0]
Num(h) == [t |-> "num", s |-> <<>>, n |-> h]
NaN == [t |-> "nan", s |-> <<>>, n |-> 0]
None == [t |-> "none", s |-> <<>>, n |-> 0]
\* the empty string '' that add_empty_cols puts in a new column
EmptyStr == Txt(<<>>)

\* NA_LIST = [np.nan, 'NA', 'na', 'N/A', 'n/a', 'N/a', 'nan', '']
NA_LIST ==
    { NaN, Txt(<<"N", "A">>), Txt(<<"n", "a">>), Txt(<<"N", "/", "A">>),
      Txt(<<"n", "/", "a">>), Txt(<<"N", "/", "a">>), Txt(<<"n", "a", "n">>),
      Txt(<<>>) }

----------------------------------------------------------------------------
(* Python's string methods, on sequences of characters *)

UpperOf ==
    ("a" :> "A") @@ ("b" :> "B") @@ ("c" :> "C") @@ ("d" :> "D") @@
    ("e" :> "E") @@ ("l" :> "L") @@ ("m" :> "M") @@ ("n" :> "N") @@
    ("o" :> "O") @@ ("p" :> "P") @@ ("z" :> "Z")

\* str.upper and str.lower of one character
UpperChar(c) == IF c \in DOMAIN UpperOf THEN UpperOf[c] ELSE c
LowerChar(c) ==
    IF \E l \in DOMAIN UpperOf : UpperOf[l] = c
    THEN CHOOSE l \in DOMAIN UpperOf : UpperOf[l] = c
    ELSE c

\* str.lower()
lower(s) == [k \in 1..Len(s) |-> LowerChar(s[k])]

\* str.capitalize(): the first character upper-cased, the others lower-cased
capitalize(s) ==
    IF s = <<>> THEN <<>> ELSE <<UpperChar(s[1])>> \o lower(Tail(s))

\* str.split(sep) with a one-character separator: the list of the pieces
RECURSIVE split(_, _)
split(s, sep) ==
    IF \A k \in 1..Len(s) : s[k] # sep
    THEN <<s>>
    ELSE LET p == CHOOSE k \in 1..Len(s) :
                      s[k] = sep /\ \A j \in 1..(k - 1) : s[j] # sep
         IN  <<SubSeq(s, 1, p - 1)>> \o split(SubSeq(s, p + 1, Len(s)), sep)

\* sep.join(parts)
RECURSIVE join(_, _)
join(sep, parts) ==
    IF parts = <<>> THEN <<>>
    ELSE IF Len(parts) = 1 THEN parts[1]
    ELSE parts[1] \o sep \o join(sep, Tail(parts))

\* str.strip(): leading and trailing blanks removed
RECURSIVE strip(_)
strip(s) ==
    IF s = <<>> THEN s
    ELSE IF s[1] = " " THEN strip(Tail(s))
    ELSE IF s[Len(s)] = " " THEN strip(SubSeq(s, 1, Len(s) - 1))
    ELSE s

\* split_email: email.split('@')[0].lower()
split_email(email) == lower(split(email, "@")[1])

\* fix_name: name.strip(), then every piece between blanks capitalized
fix_name(nm) ==
    LET pieces == split(strip(nm), " ")
    IN  join(<<" ">>, [k \in 1..Len(pieces) |-> capitalize(pieces[k])])

----------------------------------------------------------------------------
(* The inputs: gradebooks and survey responses *)

sAlPo == <<"A", "l", " ", "P", "o">>
sBoMcA == <<"B", "o", " ", "M", "c", "A">>
sZed == <<"Z", "e", "d">>
sLowAlPo == <<" ", "a", "l", " ", "p", "o">>

\* rating labels, and the survey's point map (the PointMap sheet, line 622)
Excellent == <<"E", "x", "c">>
Good == <<"G", "o", "o", "d">>
Poor == <<"P", "o", "o", "r">>
Meh == <<"M", "e", "h">>
map_points == (Excellent :> 5 * Scale) @@ (Good :> 4 * Scale) @@ (Poor :> 1 * Scale)

\* a student of the prepared gradebook: the login id and the 'Name' column
Student(sid, nm) ==
    [sid |-> sid, Name |-> nm,
     se_email |-> None, se_name |-> None, se_rating |-> None,
     pe_n |-> None, pe_comments |-> None, pe_avg |-> None, pe_std |-> None]

stAl == Student(<<"a", "l">>, sAlPo)
stBo == Student(<<"b", "o">>, sBoMcA)
\* a second student with the display name of the first
stAp == Student(<<"a", "p">>, sAlPo)

\* the gradebooks: login ids are unique, display names need not be
Gradebooks == { <<stAl, stBo>>, <<stAl, stBo, stAp>> }

\* the self columns of one response: email, name, rating
SelfPart(email, nm, rating) == [email |-> email, name |-> nm, rating |-> rating]
\* one peer slot of one response: the peer's name, rating and comments
PeerSlot(nm, rating, comments) ==
    [name |-> nm, rating |-> rating, comments |-> comments]
BlankSlot == PeerSlot(NaN, NaN, NaN)

Mail(user) == Txt(user \o <<"@", "x">>)
cOk == Txt(<<"o", "k">>)
cHm == Txt(<<"h", "m">>)

spAl == SelfPart(Mail(<<"a", "l">>), Txt(sAlPo), Txt(Good))
spBo == SelfPart(Mail(<<"b", "o">>), Txt(sBoMcA), Txt(Poor))

SelfParts ==
    { spAl, spBo,
      \* the login id in upper case, and another stated name
      SelfPart(Mail(<<"A", "L">>), Txt(sZed), Txt(Excellent)),
      \* no login id of the gradebook; the stated name is a display name
      SelfPart(Mail(<<"z", "a">>), Txt(sBoMcA), Txt(Good)),
      SelfPart(Mail(<<"z", "b">>), Txt(sAlPo), Txt(Excellent)),
      \* no login id; the stated name matches once normalized
      SelfPart(Mail(<<"z", "c">>), Txt(sLowAlPo), Txt(Good)),
      \* no login id; the stated name is in no gradebook
      SelfPart(Mail(<<"z", "d">>), Txt(sZed), Txt(Good)),
      \* a blank email cell
      SelfPart(NaN, Txt(sAlPo), Txt(Good)),
      \* a blank rating cell, and a rating label the point map lacks
      SelfPart(Mail(<<"b", "o">>), Txt(sBoMcA), NaN),
      SelfPart(Mail(<<"b", "o">>), Txt(sBoMcA), Txt(Meh)) }

PeerParts ==
    { <<BlankSlot, BlankSlot>>,
      <<PeerSlot(Txt(sBoMcA), Txt(Good), cOk),
        PeerSlot(Txt(sAlPo), Txt(Excellent), NaN)>>,
      <<PeerSlot(Txt(sBoMcA), Txt(Excellent), cHm), BlankSlot>>,
      <<PeerSlot(Txt(sBoMcA), Txt(Poor), NaN),
        PeerSlot(Txt(sLowAlPo), Txt(Poor), cOk)>>,
      <<PeerSlot(Txt(sZed), Txt(Good), cOk), BlankSlot>>,
      <<PeerSlot(Txt(sAlPo), NaN, cOk), BlankSlot>>,
      <<PeerSlot(Txt(sAlPo), Txt(Meh), cOk), BlankSlot>>,
      \* the second slot names a student other responses name in the first
      <<PeerSlot(Txt(sAlPo), Txt(Good), cOk),
        PeerSlot(Txt(sBoMcA), Txt(Poor), cHm)>> }

Response(sp, pp) ==
    [email |-> sp.email, name |-> sp.name, rating |-> sp.rating, peers |-> pp]

PlainPeers ==
    <<PeerSlot(Txt(sBoMcA), Txt(Good), cOk),
      PeerSlot(Txt(sAlPo), Txt(Excellent), NaN)>>

\* the responses a survey is made of
Responses ==
    { Response(sp, PlainPeers) : sp \in SelfParts }
    \cup { Response(sp, pp) : sp \in {spAl, spBo}, pp \in PeerParts }

Surveys == UNION { [1..n -> Responses] : n \in 1..MaxResponses }

\* what the operator may type at the prompt of find_student
Inputs ==
    { <<"N", "A">>, <<"n", "a">>, <<"N", "a">>, <<"N", "/", "A">>,
      <<"n", "/", "a">>, <<"N", "/", "a">>, <<"n", "a", "n">>, <<>>,
      sAlPo, sBoMcA, sZed, sLowAlPo }

----------------------------------------------------------------------------
(* Helpers on the gradebook *)

\* list(grade_book[GB_SID]) and list(grade_book['Name'])
GB_SID(gb) == { gb[r].sid : r \in DOMAIN gb }
GB_Names(gb) == { gb[r].Name : r \in DOMAIN gb }

NoErr == [type |-> "none", fn |-> "none", at |-> "none"]
Err(type, fn, at) == [type |-> type, fn |-> fn, at |-> at]

\* add_empty_cols: every column of cols is set to '' in every row
add_empty_cols(gb, cols) ==
    [r \in DOMAIN gb |->
        [f \in DOMAIN gb[r] |-> IF f \in cols THEN EmptyStr ELSE gb[r][f]]]

\* replace_empty with the replacement left out
replace_empty_skipped(gb, cols) == gb

\* grade_book[cols].replace('', np.nan), lines 340 and 432
replace_empty(gb, cols) ==
    [r \in DOMAIN gb |->
        [f \in DOMAIN gb[r] |->
            IF f \in cols /\ gb[r][f] = EmptyStr THEN NaN ELSE gb[r][f]]]

\* grade_book.loc[rows, the columns of vals] = vals, once the shapes agree
loc_set(gb, rows, vals) ==
    [r \in DOMAIN gb |->
        IF r \in rows
        THEN [f \in DOMAIN gb[r] |->
                 IF f \in DOMAIN vals THEN vals[f] ELSE gb[r][f]]
        ELSE gb[r]]

\* grade_book.loc[rows, cols] = values raises a ValueError when values has
\* nvals rows that do not fit the rows selected.  One row of values is set
\* into every row selected.  Login ids are unique, so that at most one row
\* is selected where nvals can exceed 1, and several rows never fit it.
loc_raises(rows, nvals) == nvals # 1

SE_COLS == {"se_email", "se_name", "se_rating"}
SE_CHECK_COLS == {"se_rating"}
PE_COLS == {"pe_n", "pe_comments", "pe_avg", "pe_std"}

----------------------------------------------------------------------------
(* convert_ratings *)

\* map_points[label] raises KeyError unless the cell is a key of the map
has_points(mp, cell) == cell.t = "str" /\ cell.s \in DOMAIN mp

\* convert_ratings with map_points.get(label, 0) for map_points[label]
convert_ratings_default(mp, ratings) ==
    [raised |-> FALSE,
     ratings |-> [i \in DOMAIN ratings |->
                     [c \in DOMAIN ratings[i] |->
                         IF has_points(mp, ratings[i][c])
                         THEN Num(mp[ratings[i][c].s])
                         ELSE Num(0)]],
     input |-> ratings]

\* convert_ratings(map_points, ratings), ratings a table (rows of cells):
\* raised, or the table of points; input is the caller's table afterwards
convert_ratings(mp, ratings) ==
    LET bad == \E i \in DOMAIN ratings : \E c \in DOMAIN ratings[i] :
                   ~has_points(mp, ratings[i][c])
    IN  [raised |-> bad,
         ratings |-> IF bad THEN <<>>
                     ELSE [i \in DOMAIN ratings |->
                              [c \in DOMAIN ratings[i] |->
                                  Num(mp[ratings[i][c].s])]],
         input |-> ratings]

----------------------------------------------------------------------------
(* process_self_evals *)

\* evals_self[rating_cols] of the survey: one rating column
self_ratings(sr) == [i \in DOMAIN sr |-> <<sr[i].rating>>]

Plan(raise, at, rows, nvals) ==
    [raise |-> raise, at |-> at, rows |-> rows, nvals |-> nvals]

\* One pass of the loop over list_emails, for the email of response i: the
\* exception it raises, or the rows of the gradebook it sets and the number
\* of rows of evals_self it sets them to.
self_row(gb, es, i) ==
    LET email == es[i].email
        same == { j \in DOMAIN es : es[j].email = email }
    IN  IF email.t # "str"
        THEN Plan("AttributeError", "split_email", {}, 0)
        ELSE LET student_id == split_email(email.s)
             IN  IF student_id \in GB_SID(gb)
                 THEN Plan("none", "login",
                           { r \in DOMAIN gb : gb[r].sid = student_id },
                           Cardinality(same))
                 ELSE IF Cardinality(same) # 1
                 THEN Plan("ValueError", "unpack", {}, 0)
                 ELSE IF es[i].name.t # "str"
                 THEN Plan("AttributeError", "fix_name", {}, 0)
                 ELSE LET student_name == fix_name(es[i].name.s)
                      IN  IF student_name \notin GB_Names(gb)
                          \* find_student gets a DataFrame for eval_row, and
                          \* "peer_name in NA_LIST" of a Series raises
                          THEN Plan("ValueError", "find_student", {}, 0)
                          ELSE IF Txt(student_name) \in NA_LIST
                          THEN Plan("none", "skip", {}, 1)
                          ELSE Plan("none", "name",
                                    { r \in DOMAIN gb :
                                          gb[r].Name = student_name },
                                    Cardinality(same))

\* the values of the row of evals_self, by column of the gradebook
self_values(row) ==
    [se_email |-> row.email, se_name |-> row.name, se_rating |-> row.rating]

Raise(type, fn, at) ==
    /\ pc' = "error"
    /\ err' = Err(type, fn, at)

\* lines 297-310: the table, the new columns, the ratings converted
ProcessSelfSetup ==
    /\ pc = "self_setup"
    /\ LET conv == convert_ratings(map_points, self_ratings(survey_results))
       IN  /\ grade_book' = add_empty_cols(grade_book, SE_COLS)
           /\ IF conv.raised
              THEN /\ Raise("KeyError", "process_self_evals", "convert_ratings")
                   /\ UNCHANGED <<evals_self, idx>>
              ELSE /\ evals_self' =
                        [i \in DOMAIN survey_results |->
                            [email |-> survey_results[i].email,
                             name |-> survey_results[i].name,
                             rating |-> conv.ratings[i][1]]]
                   /\ pc' = "self_loop"
                   /\ idx' = 1
                   /\ UNCHANGED err
    /\ UNCHANGED <<survey_results, evals_peer, evals_peer_compiled, name, tries>>

\* lines 317-337: one email of list_emails
SelfRow ==
    /\ pc = "self_loop"
    /\ idx <= Len(evals_self)
    /\ LET plan == self_row(grade_book, evals_self, idx)
       IN  IF plan.raise # "none"
           THEN /\ Raise(plan.raise, "process_self_evals", plan.at)
                /\ UNCHANGED <<grade_book, idx>>
           ELSE IF loc_raises(plan.rows, plan.nvals)
           THEN /\ Raise("ValueError", "process_self_evals", "loc")
                /\ UNCHANGED <<grade_book, idx>>
           ELSE /\ grade_book' = loc_set(grade_book, plan.rows,
                                         self_values(evals_self[idx]))
                /\ idx' = idx + 1
                /\ UNCHANGED <<pc, err>>
    /\ UNCHANGED <<survey_results, evals_self, evals_peer,
                   evals_peer_compiled, name, tries>>

\* lines 338-342: the empty rating cells become NaN; process_peer_evals is next
SelfFinish ==
    /\ pc = "self_loop"
    /\ idx > Len(evals_self)
    /\ grade_book' = replace_empty(grade_book, SE_CHECK_COLS)
    /\ pc' = "peer_setup"
    /\ idx' = 1
    /\ UNCHANGED <<survey_results, evals_self, evals_peer,
                   evals_peer_compiled, name, tries, err>>

----------------------------------------------------------------------------
(* average_ratings *)

\* round(a / b) for a >= 0 and b > 0; a tie goes to the even neighbour, as
\* round() does for a float that is exact
round_div(a, b) ==
    LET q == a \div b
        rem == a % b
    IN  IF 2 * rem < b THEN q
        ELSE IF 2 * rem > b THEN q + 1
        ELSE IF q % 2 = 0 THEN q ELSE q + 1

\* the largest r of lo..hi with (r - 1/2)^2 <= num / den, by bisection
RECURSIVE sqrt_between(_, _, _, _)
sqrt_between(lo, hi, num, den) ==
    IF lo = hi THEN lo
    ELSE LET mid == (lo + hi + 1) \div 2
         IN  IF (2 * mid - 1) * (2 * mid - 1) * den <= 4 * num
             THEN sqrt_between(mid, hi, num, den)
             ELSE sqrt_between(lo, mid - 1, num, den)

\* round(sqrt(num / den)) for 0 <= num <= top * top * den and den > 0
sqrt_round(num, den, top) == sqrt_between(0, top, num, den)

RECURSIVE sum(_)
sum(xs) == IF xs = <<>> THEN 0 ELSE xs[1] + sum(Tail(xs))

\* round(mean(xs), 2) of statistics.mean, in hundredths
mean(xs) == round_div(sum(xs), Len(xs))

\* stdev with the divisor Len(xs) of statistics.pstdev
stdev_population(xs) ==
    LET n == Len(xs)
        sq == sum([k \in 1..n |-> xs[k] * xs[k]])
        top == CHOOSE x \in { xs[k] : k \in 1..n } :
                   \A k \in 1..n : xs[k] <= x
    IN  sqrt_round(n * sq - sum(xs) * sum(xs), n * n, top)

\* round(stdev(xs), 2) of statistics.stdev, in hundredths: the square root
\* of the sum of the squared deviations from the mean over Len(xs) - 1
stdev(xs) ==
    LET n == Len(xs)
        sq == sum([k \in 1..n |-> xs[k] * xs[k]])
        top == CHOOSE x \in { xs[k] : k \in 1..n } :
                   \A k \in 1..n : xs[k] <= x
    IN  sqrt_round(n * sq - sum(xs) * sum(xs), n * (n - 1), top)

\* ' | '
Separator == <<" ", "|", " ">>

\* average_ratings(eval_df, pe_cols, map_points) for a bucket of rows.
\* nan_same tells whether the blank cells of the bucket are the object
\* np.nan itself, which "c not in NA_LIST" finds by identity, or floats made
\* when a float64 column was turned into objects, which it cannot find.
average_ratings(eval_df, mp, nan_same) ==
    LET n == Len(eval_df)
        Kept(c) == IF c = NaN THEN ~nan_same ELSE c \notin NA_LIST
        comments == SelectSeq([k \in 1..n |-> eval_df[k].comments], Kept)
        conv == convert_ratings(mp, [k \in 1..n |-> <<eval_df[k].rating>>])
        points == [k \in 1..n |-> conv.ratings[k][1].n]
    IN  IF \E k \in 1..Len(comments) : comments[k].t # "str"
        THEN [raised |-> "TypeError", at |-> "join", avgs |-> <<>>]
        ELSE IF conv.raised
        THEN [raised |-> "KeyError", at |-> "convert_ratings", avgs |-> <<>>]
        ELSE [raised |-> "none", at |-> "none",
              avgs |->
                [pe_n |-> Num(n * Scale),
                 pe_comments |->
                    Txt(join(Separator,
                             [k \in 1..Len(comments) |-> comments[k].s])),
                 pe_avg |-> Num(mean(points)),
                 pe_std |-> IF n = 1 THEN NaN ELSE Num(stdev(points))]]

----------------------------------------------------------------------------
(* find_student *)

\* the exit test with name.upper() == 'NA' for name in NA_LIST
find_student_exit_anycase(gb, input) ==
    input \in GB_Names(gb) \/ lower(input) = <<"n", "a">>

\* lines 581 and 596: (name in list(grade_book['Name'])) or (name in NA_LIST)
find_student_exit(gb, input) ==
    input \in GB_Names(gb) \/ Txt(input) \in NA_LIST

----------------------------------------------------------------------------
(* process_peer_evals *)

\* unique_peers: the peer slots of the survey map
PeerSlots == {1, 2}
\* list(set(...)) of line 369: the slots in the order the set yields them
PeerOrders == { <<1, 2>>, <<2, 1>> }

\* lines 374-380: the rows of every slot, slot after slot, on the columns
\* of the first slot, each with the row of the response it comes from
stack_peers(sr, order) ==
    [k \in 1..(Len(order) * Len(sr)) |->
        LET slot == order[((k - 1) \div Len(sr)) + 1]
            row == ((k - 1) % Len(sr)) + 1
        IN  [review_row |-> row,
             name |-> sr[row].peers[slot].name,
             rating |-> sr[row].peers[slot].rating,
             comments |-> sr[row].peers[slot].comments]]

\* the keys of evals_peer_compiled in the order they were first inserted
RECURSIVE dict_keys(_)
dict_keys(names) ==
    IF names = <<>> THEN <<>>
    ELSE LET front == dict_keys(SubSeq(names, 1, Len(names) - 1))
             last == names[Len(names)]
         IN  IF \E k \in 1..Len(front) : front[k] = last
             THEN front
             ELSE Append(front, last)

gb_keys(gb) == dict_keys([r \in DOMAIN gb |-> gb[r].Name])

\* line 417: name == 'NA'
is_skip(nm) == nm = Txt(<<"N", "A">>)

\* the loop of line 406 goes to its next row, or ends: line 424 is next
NextPeerRow ==
    /\ pc' = IF idx < Len(evals_peer) THEN "peer_loop" ELSE "peer_reduce"
    /\ idx' = IF idx < Len(evals_peer) THEN idx + 1 ELSE 1

\* lines 417-421 for the name the matching ended with: 'NA' goes on to the
\* next row, a key of the buckets gets the row, anything else is a KeyError
PeerAppend(nm) ==
    IF is_skip(nm)
    THEN /\ NextPeerRow
         /\ UNCHANGED <<evals_peer_compiled, err>>
    ELSE IF nm.s \in DOMAIN evals_peer_compiled
    THEN /\ evals_peer_compiled' =
              [evals_peer_compiled EXCEPT
                  ![nm.s] = Append(@, evals_peer[idx])]
         /\ NextPeerRow
         /\ UNCHANGED err
    ELSE /\ Raise("KeyError", "process_peer_evals", "evals_peer_compiled")
         /\ UNCHANGED <<evals_peer_compiled, idx>>

\* lines 367-401: the stacked rows, the new columns, one empty bucket per Name
PeerSetup ==
    /\ pc = "peer_setup"
    /\ \E order \in PeerOrders :
           evals_peer' = stack_peers(survey_results, order)
    /\ grade_book' = add_empty_cols(grade_book, PE_COLS)
    /\ evals_peer_compiled' = [nm \in GB_Names(grade_book) |-> <<>>]
    /\ pc' = "peer_loop"
    /\ idx' = 1
    /\ UNCHANGED <<survey_results, evals_self, name, tries, err>>

\* lines 406-421 and 552-569: one row of evals_peer, up to the prompt of
\* find_student.  A blank cell is found in NA_LIST when it is the object
\* np.nan; a blank that is another float (a float64 column turned into
\* objects) is not found.  fix_name then fails on a blank name, and
\* find_student, which joins the names of the other peers of the response
\* into its prompt, fails on a blank one among them.  The section and the
\* team of the response, which the prompt also shows, are strings.
PeerRow ==
    /\ pc = "peer_loop"
    /\ idx <= Len(evals_peer)
    /\ LET cell == evals_peer[idx].name
           peers == survey_results[evals_peer[idx].review_row].peers
           asks == /\ cell \notin NA_LIST
                   /\ cell.s \notin GB_Names(grade_book)
                   /\ fix_name(cell.s) \notin GB_Names(grade_book)
           blanks == \E slot \in PeerSlots : peers[slot].name = NaN
       IN  \E nan_same \in (IF cell = NaN \/ (asks /\ blanks)
                            THEN BOOLEAN ELSE {TRUE}) :
               IF cell = NaN /\ ~nan_same
               THEN /\ Raise("AttributeError", "process_peer_evals", "fix_name")
                    /\ UNCHANGED <<evals_peer_compiled, idx, name, tries>>
               ELSE IF cell \in NA_LIST
               THEN /\ name' = cell
                    /\ NextPeerRow
                    /\ UNCHANGED <<evals_peer_compiled, tries, err>>
               ELSE IF cell.s \in GB_Names(grade_book)
               THEN /\ name' = cell
                    /\ PeerAppend(cell)
                    /\ UNCHANGED tries
               ELSE IF fix_name(cell.s) \in GB_Names(grade_book)
               THEN /\ name' = Txt(fix_name(cell.s))
                    /\ PeerAppend(Txt(fix_name(cell.s)))
                    /\ UNCHANGED tries
               ELSE IF ~nan_same
               THEN /\ name' = Txt(fix_name(cell.s))
                    /\ Raise("TypeError", "process_peer_evals", "find_student")
                    /\ UNCHANGED <<evals_peer_compiled, idx, tries>>
               ELSE /\ name' = Txt(fix_name(cell.s))
                    /\ pc' = "peer_prompt"
                    /\ tries' = 0
                    /\ UNCHANGED <<evals_peer_compiled, idx, err>>
    /\ UNCHANGED <<grade_book, survey_results, evals_self, evals_peer>>

\* lines 587-600 and 417-421: the operator answers the prompt.  A wrong
\* name prints the error and asks again; a name of the gradebook or a
\* member of NA_LIST is returned to process_peer_evals.
FindStudentPeer ==
    /\ pc = "peer_prompt"
    /\ \E input \in Inputs :
           /\ name' = Txt(input)
           /\ IF find_student_exit(grade_book, input)
              THEN /\ PeerAppend(Txt(input))
                   /\ UNCHANGED tries
              ELSE /\ tries < MaxPrompts
                   /\ tries' = tries + 1
                   /\ UNCHANGED <<evals_peer_compiled, pc, idx, err>>
    /\ UNCHANGED <<grade_book, survey_results, evals_self, evals_peer>>

\* lines 424-429: one student of evals_peer_compiled, in the order of the
\* keys; a bucket that is not empty is averaged and set into the rows of
\* the gradebook with that Name
PeerReduce ==
    /\ pc = "peer_reduce"
    /\ idx <= Len(gb_keys(grade_book))
    /\ LET student == gb_keys(grade_book)[idx]
           eval_df == evals_peer_compiled[student]
           rows == { r \in DOMAIN grade_book : grade_book[r].Name = student }
           blanks == \E k \in 1..Len(eval_df) : eval_df[k].comments = NaN
       IN  IF eval_df = <<>>
           THEN /\ idx' = idx + 1
                /\ UNCHANGED <<grade_book, pc, err>>
           ELSE \E nan_same \in (IF blanks THEN BOOLEAN ELSE {TRUE}) :
                    LET res == average_ratings(eval_df, map_points, nan_same)
                    IN  IF res.raised # "none"
                        THEN /\ Raise(res.raised, "process_peer_evals", res.at)
                             /\ UNCHANGED <<grade_book, idx>>
                        ELSE /\ grade_book' =
                                  loc_set(grade_book, rows, res.avgs)
                             /\ idx' = idx + 1
                             /\ UNCHANGED <<pc, err>>
    /\ UNCHANGED <<survey_results, evals_self, evals_peer,
                   evals_peer_compiled, name, tries>>

\* lines 431-434: the empty peer cells become NaN; the gradebook is returned
PeerFinish ==
    /\ pc = "peer_reduce"
    /\ idx > Len(gb_keys(grade_book))
    /\ grade_book' = replace_empty(grade_book, PE_COLS)
    /\ pc' = "done"
    /\ UNCHANGED <<survey_results, evals_self, evals_peer,
                   evals_peer_compiled, idx, name, tries, err>>

----------------------------------------------------------------------------

Init ==
    /\ grade_book \in Gradebooks
    /\ survey_results \in Surveys
    /\ evals_self = <<>>
    /\ evals_peer = <<>>
    /\ evals_peer_compiled = <<>>
    /\ pc = "self_setup"
    /\ idx = 1
    /\ name = None
    /\ tries = 0
    /\ err = NoErr

Next ==
    \/ ProcessSelfSetup
    \/ SelfRow
    \/ SelfFinish
    \/ PeerSetup
    \/ PeerRow
    \/ FindStudentPeer
    \/ PeerReduce
    \/ PeerFinish

Spec == Init /\ [][Next]_vars

----------------------------------------------------------------------------
(* The claims *)

\* response i has an email whose login id is in no row of the gradebook
NoLoginMatch(i) ==
    /\ survey_results[i].email.t = "str"
    /\ split_email(survey_results[i].email.s) \notin GB_SID(grade_book)

\* the login id of the email of response i is the one of row g
LoginMatch(i, g) ==
    /\ survey_results[i].email.t = "str"
    /\ split_email(survey_results[i].email.s) = grade_book[g].sid

\* row g of the gradebook holds the self-evaluation of response i
HoldsSelf(g, i) ==
    /\ grade_book[g].se_email = evals_self[i].email
    /\ grade_book[g].se_name = evals_self[i].name
    /\ grade_book[g].se_rating = evals_self[i].rating

\* the loop of process_self_evals has just finished response i
JustMerged(i) == pc = "self_loop" /\ idx = i + 1

\* C1: identity resolution tries login id, exact name, normalized name and
\* the prompt in this order.  A self-response without a login-id match
\* whose stated name is a display name of the gradebook is merged into
\* that row and never reaches find_student; a login-id match is final
\* whatever the stated name; a peer row is prompted for only when neither
\* its name nor its normalized name is a display name.
ClaimC1 ==
    /\ \A i \in DOMAIN evals_self :
           (NoLoginMatch(i)
              /\ survey_results[i].name.s \in GB_Names(grade_book))
           => /\ ~(pc = "error" /\ err.at = "find_student" /\ idx = i)
              /\ JustMerged(i) =>
                     \A g \in DOMAIN grade_book :
                         grade_book[g].Name = survey_results[i].name.s
                         => HoldsSelf(g, i)
    /\ \A i \in DOMAIN evals_self : \A g \in DOMAIN grade_book :
           (LoginMatch(i, g) /\ JustMerged(i)) => HoldsSelf(g, i)
    /\ pc = "peer_prompt" =>
           /\ evals_peer[idx].name.s \notin GB_Names(grade_book)
           /\ fix_name(evals_peer[idx].name.s) \notin GB_Names(grade_book)

\* the strings that are "NA" in some letter case
IsNAAnyCase(s) == lower(s) = <<"n", "a">>

\* the strings of NA_LIST
NAStrings ==
    { <<"N", "A">>, <<"n", "a">>, <<"N", "/", "A">>, <<"n", "/", "a">>,
      <<"N", "/", "a">>, <<"n", "a", "n">>, <<>> }

ClaimC3 ==
    [][(pc = "peer_prompt" /\ pc' # "peer_prompt" /\ IsNAAnyCase(name'.s))
          => /\ pc' # "error"
             /\ evals_peer_compiled' = evals_peer_compiled
             /\ grade_book' = grade_book
             /\ (idx' = idx + 1 \/ pc' = "peer_reduce")]_vars

\* process_self_evals has returned the gradebook
SelfDone ==
    \/ pc \in {"peer_setup", "peer_loop", "peer_prompt", "peer_reduce", "done"}
    \/ pc = "error" /\ err.fn = "process_peer_evals"

\* the matching of process_self_evals resolves response i to row g: by the
\* login id of the email, or else by the normalized stated name
ResolvesTo(i, g) ==
    /\ survey_results[i].email.t = "str"
    /\ IF NoLoginMatch(i)
       THEN fix_name(survey_results[i].name.s) = grade_book[g].Name
       ELSE LoginMatch(i, g)

\* the points of a rating label
Points(cell) == map_points[cell.s]

\* C4: once process_self_evals has returned, the self-rating of a row of
\* the gradebook is the converted rating of the one self-response that
\* resolved to the row, and NaN (not '') if no self-response resolved to it.
TheoremC4 ==
    SelfDone =>
        \A g \in DOMAIN grade_book :
            LET matched == { i \in DOMAIN survey_results : ResolvesTo(i, g) }
            IN  /\ matched = {} => grade_book[g].se_rating = NaN
                /\ Cardinality(matched) = 1 =>
                       \A i \in matched :
                           grade_book[g].se_rating =
                               Num(Points(survey_results[i].rating))

\* C4, witness: the run is over, one row holds the points of its
\* self-response and another row, which had none, holds NaN
WitnessC4 ==
    /\ pc = "done"
    /\ \E g \in DOMAIN grade_book : grade_book[g].se_rating = NaN
    /\ \E g \in DOMAIN grade_book : \E i \in DOMAIN survey_results :
           /\ { j \in DOMAIN survey_results : ResolvesTo(j, g) } = {i}
           /\ grade_book[g].se_rating = Num(Points(survey_results[i].rating))

\* C5: a match that several rows of the gradebook satisfy is a resolution
\* failure.  A merged self-response is in at most one row, and no peer row
\* is put in the bucket of a display name that several rows share.
ClaimC5 ==
    /\ \A i \in DOMAIN evals_self :
           JustMerged(i) =>
               Cardinality({ g \in DOMAIN grade_book : HoldsSelf(g, i) }) <= 1
    /\ \A nm \in DOMAIN evals_peer_compiled :
           Cardinality({ g \in DOMAIN grade_book : grade_book[g].Name = nm }) > 1
           => evals_peer_compiled[nm] = <<>>

\* C6: a response that cannot be processed, such as one with a blank email
\* cell, is skipped: it does not end the run.
ClaimC6 ==
    \A i \in DOMAIN evals_self :
        evals_self[i].email = NaN =>
            ~(pc = "error" /\ err.fn = "process_self_evals" /\ idx = i)

\* the averages of the k-th key of evals_peer_compiled have been set
Reduced(k) == pc = "done" \/ (pc = "peer_reduce" /\ k < idx)

Abs(x) == IF x < 0 THEN -x ELSE x

\* C7: for a student whose bucket holds n >= 1 rows, 'PE: N' is n and the
\* average is the mean of the converted ratings to the nearest hundredth;
\* the standard deviation is NaN when n = 1 and, when n >= 2, the nearest
\* hundredth of the square root of the squared deviations over n - 1.
TheoremC7 ==
    \A k \in 1..Len(gb_keys(grade_book)) : \A g \in DOMAIN grade_book :
        LET student == gb_keys(grade_book)[k]
            bucket == evals_peer_compiled[student]
            n == Len(bucket)
            h == [j \in 1..n |-> Points(bucket[j].rating)]
            total == sum(h)
            devs == n * sum([j \in 1..n |-> h[j] * h[j]]) - total * total
            avg == grade_book[g].pe_avg
            std == grade_book[g].pe_std
        IN  (Reduced(k) /\ grade_book[g].Name = student /\ n >= 1) =>
                /\ grade_book[g].pe_n = Num(n * Scale)
                /\ avg.t = "num"
                /\ 2 * Abs(n * avg.n - total) <= n
                /\ n = 1 => std = NaN
                /\ n >= 2 =>
                       /\ std.t = "num"
                       /\ std.n >= 0
                       /\ std.n > 0 =>
                              (2 * std.n - 1) * (2 * std.n - 1) * n * (n - 1)
                                  <= 4 * devs
                       /\ 4 * devs
                              < (2 * std.n + 1) * (2 * std.n + 1) * n * (n - 1)

\* C7, witness: the run is over; one student has two ratings, 4 and 5
\* (average 4.5, deviation 0.71), and another has one rating and NaN
WitnessC7 ==
    /\ pc = "done"
    /\ \E g \in DOMAIN grade_book :
           /\ grade_book[g].pe_n = Num(2 * Scale)
           /\ grade_book[g].pe_avg = Num(450)
           /\ grade_book[g].pe_std = Num(71)
    /\ \E g \in DOMAIN grade_book :
           /\ grade_book[g].pe_n = Num(Scale)
           /\ grade_book[g].pe_std = NaN

\* a rating cell that is a label, and one the point map has no entry for
IsLabel(cell) == cell.t = "str"
Unmapped(cell) == ~(cell.t = "str" /\ cell.s \in DOMAIN map_points)

\* the ratings of the bucket of a student, as a table
bucket_ratings(nm) ==
    [j \in 1..Len(evals_peer_compiled[nm]) |->
        <<evals_peer_compiled[nm][j].rating>>]

\* C8: a blank rating cell raises no error: convert_ratings ends the run
\* only for a cell that holds a label.
ClaimC8 ==
    /\ (pc = "error" /\ err.fn = "process_self_evals"
          /\ err.at = "convert_ratings")
       => \E i \in DOMAIN survey_results :
              /\ IsLabel(survey_results[i].rating)
              /\ Unmapped(survey_results[i].rating)
    /\ (pc = "error" /\ err.fn = "process_peer_evals"
          /\ err.at = "convert_ratings")
       => LET bucket == evals_peer_compiled[gb_keys(grade_book)[idx]]
          IN  \E j \in 1..Len(bucket) :
                  IsLabel(bucket[j].rating) /\ Unmapped(bucket[j].rating)

\* convert_ratings on table: the input is left as it was; it raises exactly
\* when a cell is unmapped; else the result has the shape of the table and
\* holds the points of every cell
ConvertsWell(table) ==
    LET res == convert_ratings(map_points, table)
    IN  /\ res.input = table
        /\ res.raised =
               (\E i \in DOMAIN table : \E c \in DOMAIN table[i] :
                    Unmapped(table[i][c]))
        /\ ~res.raised =>
               /\ DOMAIN res.ratings = DOMAIN table
               /\ \A i \in DOMAIN table :
                      /\ DOMAIN res.ratings[i] = DOMAIN table[i]
                      /\ \A c \in DOMAIN table[i] :
                             res.ratings[i][c] = Num(Points(table[i][c]))

\* C9: convert_ratings gives the points of every cell, in the same shape,
\* and leaves its input alone; an unmapped cell is a KeyError, not a
\* default, and the KeyError ends the run: with an unmapped self rating
\* process_self_evals gets no further than convert_ratings and writes no
\* rating, and a bucket with an unmapped rating is never averaged.
TheoremC9 ==
    /\ ConvertsWell(self_ratings(survey_results))
    /\ \A nm \in DOMAIN evals_peer_compiled : ConvertsWell(bucket_ratings(nm))
    /\ (\E i \in DOMAIN survey_results : Unmapped(survey_results[i].rating))
       => /\ pc \in {"self_setup", "error"}
          /\ pc = "error" =>
                 err = Err("KeyError", "process_self_evals", "convert_ratings")
          /\ \A g \in DOMAIN grade_book :
                 grade_book[g].se_rating \in {None, EmptyStr}
    /\ \A k \in 1..Len(gb_keys(grade_book)) :
           (pc \in {"peer_reduce", "done", "error"}
              /\ evals_peer_compiled # <<>>
              /\ \E j \in 1..Len(bucket_ratings(gb_keys(grade_book)[k])) :
                     Unmapped(bucket_ratings(gb_keys(grade_book)[k])[j][1]))
           => /\ ~Reduced(k)
              /\ \A g \in DOMAIN grade_book :
                     grade_book[g].Name = gb_keys(grade_book)[k]
                     => grade_book[g].pe_avg = EmptyStr

\* C9, witness: the run ended with the KeyError of convert_ratings on a
\* bucket that holds a label the point map lacks
WitnessC9 ==
    /\ pc = "error"
    /\ err = Err("KeyError", "process_peer_evals", "convert_ratings")
    /\ \E j \in 1..Len(evals_peer_compiled[gb_keys(grade_book)[idx]]) :
           evals_peer_compiled[gb_keys(grade_book)[idx]][j].rating = Txt(Meh)

\* C10: two self-responses that resolve to the same row of the gradebook
\* are both processed without an error; once the later one is merged the
\* row holds its values, and no row that neither resolves to holds the
\* values of either.
ClaimC10 ==
    \A i \in DOMAIN evals_self : \A j \in DOMAIN evals_self :
        \A g \in DOMAIN grade_book :
            (i < j /\ ResolvesTo(i, g) /\ ResolvesTo(j, g)) =>
                /\ ~(pc = "error" /\ err.fn = "process_self_evals"
                       /\ err.at \in {"loc", "unpack"} /\ idx \in {i, j})
                /\ JustMerged(j) =>
                       /\ HoldsSelf(g, j)
                       /\ \A g2 \in DOMAIN grade_book :
                              (~ResolvesTo(i, g2) /\ ~ResolvesTo(j, g2))
                              => (~HoldsSelf(g2, i) /\ ~HoldsSelf(g2, j))

\* the loop of line 406 has put every row of evals_peer where it goes
Distributed == pc \in {"peer_reduce", "done"}

\* the number of rows of a table that equal row
Occ(table, row) == Cardinality({ k \in DOMAIN table : table[k] = row })

\* the number of rows of all the buckets that equal row
InBuckets(row) ==
    sum([k \in 1..Len(gb_keys(grade_book)) |->
            Occ(evals_peer_compiled[gb_keys(grade_book)[k]], row)])

\* the display name that the name of a row is matched to without a prompt
AutoName(row) ==
    IF row.name.s \in GB_Names(grade_book)
    THEN row.name.s
    ELSE fix_name(row.name.s)

\* the count that 'PE: N' of row g of the gradebook shows
pe_count(g) ==
    IF grade_book[g].pe_n.t = "num" THEN grade_book[g].pe_n.n \div Scale ELSE 0

\* C11, the rows: once the rows are distributed, a row of evals_peer with
\* a name is in the buckets no more often than in evals_peer; a row with a
\* skip name is in none, and a row whose name or normalized name is a
\* display name is in the bucket of that name and in no other.
RowsKeptC11 ==
    Distributed =>
        \A k \in DOMAIN evals_peer :
            LET row == evals_peer[k]
            IN  row.name # NaN =>
                    /\ InBuckets(row) <= Occ(evals_peer, row)
                    /\ row.name \in NA_LIST => InBuckets(row) = 0
                    /\ (row.name \notin NA_LIST
                          /\ AutoName(row) \in GB_Names(grade_book))
                       => /\ Occ(evals_peer_compiled[AutoName(row)], row)
                                 = Occ(evals_peer, row)
                          /\ InBuckets(row) = Occ(evals_peer, row)

\* C11, the empty buckets: when process_peer_evals has returned, a student
\* with an empty bucket has NaN in every peer column.
EmptyBucketsC11 ==
    pc = "done" =>
        \A g \in DOMAIN grade_book :
            evals_peer_compiled[grade_book[g].Name] = <<>>
            => \A f \in PE_COLS : grade_book[g][f] = NaN

\* C11: after process_peer_evals, no row with a name is lost or in two
\* buckets; the counts 'PE: N' of the rows of the gradebook add up to the
\* number of rows in the buckets (the rows that were not skipped); and a
\* student with an empty bucket has NaN in every peer column.
ClaimC11 ==
    /\ RowsKeptC11
    /\ EmptyBucketsC11
    /\ pc = "done" =>
           sum([g \in DOMAIN grade_book |-> pe_count(g)])
               = sum([k \in 1..Len(gb_keys(grade_book)) |->
                         Len(evals_peer_compiled[gb_keys(grade_book)[k]])])

\* the comments of a bucket that are no blank and no NA string, joined with
\* ' | ' in the order of the rows
comments_text(eval_df) ==
    LET Said(c) == c \notin NA_LIST
        said == SelectSeq([k \in 1..Len(eval_df) |-> eval_df[k].comments], Said)
    IN  join(Separator, [k \in 1..Len(said) |-> said[k].s])

\* no row of the survey needs the prompt: each name is blank, an NA string,
\* a display name or the upper- and lower-casing of a display name
NoPrompt ==
    \A i \in DOMAIN survey_results : \A slot \in PeerSlots :
        LET row == survey_results[i].peers[slot]
        IN  row.name \in NA_LIST \/ AutoName(row) \in GB_Names(grade_book)

\* the bucket of display name nm when the slots are stacked in this order
\* and no row needs the prompt
bucket_in_order(nm, order) ==
    LET Goes(row) == row.name \notin NA_LIST /\ AutoName(row) = nm
    IN  SelectSeq(stack_peers(survey_results, order), Goes)

\* C12, the text: the comments written for a student are those of the
\* bucket in the order the rows were appended, joined with ' | ', without
\* the blank and NA ones; the empty text that average_ratings returns when
\* none remain is NaN once process_peer_evals has returned.
TextC12 ==
    \A k \in 1..Len(gb_keys(grade_book)) : \A g \in DOMAIN grade_book :
        LET student == gb_keys(grade_book)[k]
            text == comments_text(evals_peer_compiled[student])
        IN  (Reduced(k) /\ grade_book[g].Name = student
               /\ evals_peer_compiled[student] # <<>>)
            => grade_book[g].pe_comments =
                   IF pc = "done" /\ text = <<>> THEN NaN ELSE Txt(text)

\* C12, the bucket: averaging a bucket leaves the bucket as it was
BucketKeptC12 ==
    [][pc = "peer_reduce" => evals_peer_compiled' = evals_peer_compiled]_vars

\* C12, the runs: for the same responses and gradebook the text is the same
\* on every run: whatever the order in which the set of line 369 yields
\* the peer slots, the comments of every bucket read as they do in this
\* run.
SameTextC12 ==
    (pc = "done" /\ NoPrompt) =>
        \A order \in PeerOrders : \A nm \in DOMAIN evals_peer_compiled :
            comments_text(bucket_in_order(nm, order))
                = comments_text(evals_peer_compiled[nm])

\* C12: the comments written for a student are the comments of the bucket
\* that are not blank or NA, joined with ' | ' in the order the rows were
\* appended, and for the same responses and gradebook that order, and so
\* the text, is the same on every run.
ClaimC12 ==
    /\ TextC12
    /\ SameTextC12

====
